---- MODULE Spec2Model ----
(***************************************************************************)
(* A model of fmkr.FM, the client of the FileMaker Server XML publishing   *)
(* interface (src/fmkr/fmkr.py).                                          *)
(*                                                                         *)
(* Python str values are TLA+ strings over ASCII.  Two characters stand   *)
(* for characters outside ASCII: "^" is written for U+00E9 (e with acute   *)
(* accent) and "|" for the lone surrogate U+DC80, which a Python str can   *)
(* hold and UTF-8 cannot encode.                                           *)
(***************************************************************************)
EXTENDS Integers, Sequences, FiniteSets, TLC

(***************************************************************************)
(* Bounds of the model.                                                    *)
(***************************************************************************)
\* builder calls are taken while _dbparams holds fewer than MaxParams pairs,
\* submits while it holds at most MaxParams + 1
MaxParams == 3

(***************************************************************************)
(* Python values: str, int and None.                                       *)
(***************************************************************************)
PyStr(s) == [t |-> "str", s |-> s, n |-> 0]
PyInt(n) == [t |-> "int", s |-> "", n |-> n]
PyNone == [t |-> "none", s |-> "", n |-> 0]

\* str(v), also what an f-string does with v
Str(v) == CASE v.t = "str" -> v.s
            [] v.t = "int" -> ToString(v.n)
            [] OTHER -> "None"

\* bool(v)
Truthy(v) == CASE v.t = "str" -> v.s # ""
               [] v.t = "int" -> v.n # 0
               [] OTHER -> FALSE

Char(s, i) == SubSeq(s, i, i)

Digits == {"0", "1", "2", "3", "4", "5", "6", "7", "8", "9"}

DigitVal(c) == CASE c = "0" -> 0 [] c = "1" -> 1 [] c = "2" -> 2 [] c = "3" -> 3
                 [] c = "4" -> 4 [] c = "5" -> 5 [] c = "6" -> 6 [] c = "7" -> 7
                 [] c = "8" -> 8 [] c = "9" -> 9

Whitespace == {" ", "\n", "\t", "\r"}

RECURSIVE LStrip(_)
LStrip(s) == IF s # "" /\ Head(s) \in Whitespace THEN LStrip(Tail(s)) ELSE s

RECURSIVE RStrip(_)
RStrip(s) == IF s # "" /\ Char(s, Len(s)) \in Whitespace
             THEN RStrip(SubSeq(s, 1, Len(s) - 1)) ELSE s

\* str.strip()
Strip(s) == RStrip(LStrip(s))

AllDigits(s) == s # "" /\ \A i \in 1..Len(s) : Char(s, i) \in Digits

RECURSIVE DecVal(_)
DecVal(s) == IF s = "" THEN 0
             ELSE 10 * DecVal(SubSeq(s, 1, Len(s) - 1)) + DigitVal(Char(s, Len(s)))

Unsigned(s) == IF s # "" /\ Head(s) \in {"-", "+"} THEN Tail(s) ELSE s

\* int(v) returns: an int, or a str holding an optionally signed decimal
\* number with optional surrounding whitespace; anything else raises
\* (TypeError for None, ValueError for other text)
IntOk(v) == CASE v.t = "int" -> TRUE
              [] v.t = "str" -> AllDigits(Unsigned(Strip(v.s)))
              [] OTHER -> FALSE

IntVal(v) == CASE v.t = "int" -> v.n
               [] OTHER -> IF Head(Strip(v.s)) = "-"
                           THEN 0 - DecVal(Unsigned(Strip(v.s)))
                           ELSE DecVal(Unsigned(Strip(v.s)))

(***************************************************************************)
(* urllib.parse.urlencode, as called by FM._commit (quote_via=quote_plus,  *)
(* UTF-8, errors='strict').                                                *)
(***************************************************************************)
EAcute == "^"
Surrogate == "|"

\* characters quote_plus never quotes: letters, digits and "_.-~"
AlwaysSafe == {"a", "b", "c", "d", "e", "f", "g", "h", "i", "j", "k", "l", "m",
               "n", "o", "p", "q", "r", "s", "t", "u", "v", "w", "x", "y", "z",
               "A", "B", "C", "D", "E", "F", "G", "H", "I", "J", "K", "L", "M",
               "N", "O", "P", "Q", "R", "S", "T", "U", "V", "W", "X", "Y", "Z",
               "_", ".", "-", "~"} \cup Digits

\* the percent-encoded UTF-8 bytes of the other characters of the model
PercentTable == "&" :> "%26" @@ "=" :> "%3D" @@ "+" :> "%2B" @@ "%" :> "%25"
                @@ "<" :> "%3C" @@ "'" :> "%27" @@ EAcute :> "%C3%A9"

Encodable(s) == \A i \in 1..Len(s) : Char(s, i) # Surrogate

QuoteChar(c) == IF c \in AlwaysSafe THEN c
                ELSE IF c = " " THEN "+"
                ELSE PercentTable[c]

RECURSIVE QuotePlus(_)
QuotePlus(s) == IF s = "" THEN "" ELSE QuoteChar(Head(s)) \o QuotePlus(Tail(s))

\* urlencode raises UnicodeEncodeError when a key or value holds a surrogate
UrlencodeOk(query) ==
    \A i \in 1..Len(query) : Encodable(query[i][1]) /\ Encodable(Str(query[i][2]))

RECURSIVE Urlencode(_)
Urlencode(query) ==
    IF query = <<>> THEN ""
    ELSE LET kv == QuotePlus(query[1][1]) \o "=" \o QuotePlus(Str(query[1][2]))
         IN IF Len(query) = 1 THEN kv ELSE kv \o "&" \o Urlencode(Tail(query))

(***************************************************************************)
(* FMError                                                                 *)
(***************************************************************************)
CODES ==
       (-1) :> "Unknown error"
    @@ 0 :> "No error"
    @@ 1 :> "User canceled action"
    @@ 2 :> "Memory error"
    @@ 3 :> "Command is unavailable (for example, wrong operating system, wrong mode, etc.)"
    @@ 4 :> "Command is unknown"
    @@ 5 :> "Command is invalid (for example, a Set Field script step does not have a calculation specified)"
    @@ 6 :> "File is read-only"
    @@ 7 :> "Running out of memory"
    @@ 8 :> "Empty result"
    @@ 9 :> "Insufficient privileges"
    @@ 10 :> "Requested data is missing"
    @@ 11 :> "Name is not valid"
    @@ 12 :> "Name already exists"
    @@ 13 :> "File or object is in use"
    @@ 14 :> "Out of range"
    @@ 15 :> "Can't divide by zero"
    @@ 16 :> "Operation failed, request retry (for example, a user query)"
    @@ 17 :> "Attempt to convert foreign character set to UTF-16 failed"
    @@ 18 :> "Client must provide account information to proceed"
    @@ 19 :> "String contains characters other than A-Z, a-z, 0-9 (ASCII)"
    @@ 100 :> "File is missing"
    @@ 101 :> "Record is missing"
    @@ 102 :> "Field is missing"
    @@ 103 :> "Relationship is missing"
    @@ 104 :> "Script is missing"
    @@ 105 :> "Layout is missing"
    @@ 106 :> "Table is missing"
    @@ 107 :> "Index is missing"
    @@ 108 :> "Value list is missing"
    @@ 109 :> "Privilege set is missing"
    @@ 110 :> "Related tables are missing"
    @@ 111 :> "Field repetition is invalid"
    @@ 112 :> "Window is missing"
    @@ 113 :> "Function is missing"
    @@ 114 :> "File reference is missing"
    @@ 130 :> "Files are damaged or missing and must be reinstalled"
    @@ 131 :> "Language pack files are missing (such as template files)"
    @@ 200 :> "Record access is denied"
    @@ 201 :> "Field cannot be modified"
    @@ 202 :> "Field access is denied"
    @@ 203 :> "No records in file to print, or password doesn't allow print access"
    @@ 204 :> "No access to field(s) in sort order"
    @@ 205 :> "User does not have access privileges to create new records; import will overwrite existing data"
    @@ 206 :> "User does not have password change privileges, or file is not modifiable"
    @@ 207 :> "User does not have sufficient privileges to change database schema, or file is not modifiable"
    @@ 208 :> "Password does not contain enough characters"
    @@ 209 :> "New password must be different from existing one"
    @@ 210 :> "User account is inactive"
    @@ 211 :> "Password has expired"
    @@ 212 :> "Invalid user account and/or password. Please try again"
    @@ 213 :> "User account and/or password does not exist"
    @@ 214 :> "Too many login attempts"
    @@ 215 :> "Administrator privileges cannot be duplicated"
    @@ 216 :> "Guest account cannot be duplicated"
    @@ 217 :> "User does not have sufficient privileges to modify administrator account"
    @@ 300 :> "File is locked or in use"
    @@ 301 :> "Record is in use by another user"
    @@ 302 :> "Table is in use by another user"
    @@ 303 :> "Database schema is in use by another user"
    @@ 304 :> "Layout is in use by another user"
    @@ 306 :> "Record modification ID does not match"
    @@ 400 :> "Find criteria are empty"
    @@ 401 :> "No records match the request"
    @@ 402 :> "Selected field is not a match field for a lookup"
    @@ 403 :> "Exceeding maximum record limit for trial version of FileMaker(tm)) Pro"
    @@ 404 :> "Sort order is invalid"
    @@ 405 :> "Number of records specified exceeds number of records that can be omitted"
    @@ 406 :> "Replace/Reserialize criteria are invalid"
    @@ 407 :> "One or both match fields are missing (invalid relationship)"
    @@ 408 :> "Specified field has inappropriate data type for this operation"
    @@ 409 :> "Import order is invalid"
    @@ 410 :> "Export order is invalid"
    @@ 412 :> "Wrong version of FileMaker(tm) Pro used to recover file"
    @@ 413 :> "Specified field has inappropriate field type"
    @@ 414 :> "Layout cannot display the result"
    @@ 415 :> "Related Record Required"
    @@ 500 :> "Date value does not meet validation entry options"
    @@ 501 :> "Time value does not meet validation entry options"
    @@ 502 :> "Number value does not meet validation entry options"
    @@ 503 :> "Value in field is not within the range specified in validation entry options"
    @@ 504 :> "Value in field is not unique as required in validation entry options"
    @@ 505 :> "Value in field is not an existing value in the database file as required in validation entry options"
    @@ 506 :> "Value in field is not listed on the value list specified in validation entry option"
    @@ 507 :> "Value in field failed calculation test of validation entry option"
    @@ 508 :> "Invalid value entered in Find mode"
    @@ 509 :> "Field requires a valid value"
    @@ 510 :> "Related value is empty or unavailable"
    @@ 511 :> "Value in field exceeds maximum number of allowed characters"
    @@ 600 :> "Print error has occurred"
    @@ 601 :> "Combined header and footer exceed one page"
    @@ 602 :> "Body doesn't fit on a page for current column setup"
    @@ 603 :> "Print connection lost"
    @@ 700 :> "File is of the wrong file type for import"
    @@ 706 :> "EPSF file has no preview image"
    @@ 707 :> "Graphic translator cannot be found"
    @@ 708 :> "Can't import the file or need color monitor support to import file"
    @@ 709 :> "QuickTime movie import failed"
    @@ 710 :> "Unable to update QuickTime file reference because the database file is read-only"
    @@ 711 :> "Import translator cannot be found"
    @@ 714 :> "Password privileges do not allow the operation"
    @@ 715 :> "Specified Excel worksheet or named range is missing"
    @@ 716 :> "A SQL query using DELETE, INSERT, or UPDATE is not allowed for ODBC import"
    @@ 717 :> "There is not enough XML/XSL information to proceed with the import or export"
    @@ 718 :> "Error in parsing XML file (from Xerces)"
    @@ 719 :> "Error in transforming XML using XSL (from Xalan)"
    @@ 720 :> "Error when exporting; intended format does not support repeating fields"
    @@ 721 :> "Unknown error occurred in the parser or the transformer"
    @@ 722 :> "Cannot import data into a file that has no fields"
    @@ 723 :> "You do not have permission to add records to or modify records in the target table"
    @@ 724 :> "You do not have permission to add records to the target table"
    @@ 725 :> "You do not have permission to modify records in the target table"
    @@ 726 :> "There are more records in the import file than in the target table. Not all records were imported"
    @@ 727 :> "There are more records in the target table than in the import file. Not all records were updated"
    @@ 729 :> "Errors occurred during import. Records could not be imported"
    @@ 730 :> "Unsupported Excel version. (Convert file to Excel 7.0 (Excel 95), Excel 97, 2000, or XP format and try again)"
    @@ 731 :> "The file you are importing from contains no data"
    @@ 732 :> "This file cannot be inserted because it contains other files"
    @@ 733 :> "A table cannot be imported into itself"
    @@ 734 :> "This file type cannot be displayed as a picture"
    @@ 735 :> "This file type cannot be displayed as a picture. It will be inserted and displayed as a file 800 Unable to create file on disk"
    @@ 801 :> "Unable to create temporary file on System disk"
    @@ 802 :> "Unable to open file"
    @@ 803 :> "File is single user or host cannot be found"
    @@ 804 :> "File cannot be opened as read-only in its current state"
    @@ 805 :> "File is damaged; use Recover command"
    @@ 806 :> "File cannot be opened with this version of FileMaker(tm) Pro"
    @@ 807 :> "File is not a FileMaker(tm) Pro file or is severely damaged"
    @@ 808 :> "Cannot open file because access privileges are damaged"
    @@ 809 :> "Disk/volume is full"
    @@ 810 :> "Disk/volume is locked"
    @@ 811 :> "Temporary file cannot be opened as FileMaker(tm) Pro file"
    @@ 813 :> "Record Synchronization error on network"
    @@ 814 :> "File(s) cannot be opened because maximum number is open"
    @@ 815 :> "Couldn't open lookup file"
    @@ 816 :> "Unable to convert file"
    @@ 817 :> "Unable to open file because it does not belong to this solution"
    @@ 819 :> "Cannot save a local copy of a remote file"
    @@ 820 :> "File is in the process of being closed"
    @@ 821 :> "Host forced a disconnect"
    @@ 822 :> "FMI files not found; reinstall missing files"
    @@ 823 :> "Cannot set file to single-user, guests are connected"
    @@ 824 :> "File is damaged or not a FileMaker(tm) file"
    @@ 900 :> "General spelling engine error"
    @@ 901 :> "Main spelling dictionary not installed"
    @@ 902 :> "Could not launch the Help system"
    @@ 903 :> "Command cannot be used in a shared file"
    @@ 904 :> "Command can only be used in a file hosted under FileMaker(tm) Server"
    @@ 905 :> "No active field selected; command can only be used if there is an active field"
    @@ 920 :> "Can't initialize the spelling engine"
    @@ 921 :> "User dictionary cannot be loaded for editing"
    @@ 922 :> "User dictionary cannot be found"
    @@ 923 :> "User dictionary is read-only"
    @@ 951 :> "An unexpected error occurred (returned only by web-published databases)"
    @@ 954 :> "Unsupported XML grammar (returned only by web-published databases)"
    @@ 955 :> "No database name (returned only by web-published databases)"
    @@ 956 :> "Maximum number of database sessions exceeded (returned only by web-published databases)"
    @@ 957 :> "Conflicting commands (returned only by web-published databases)"
    @@ 958 :> "Parameter missing (returned only by web-published databases)"
    @@ 971 :> "The user name is invalid"
    @@ 972 :> "The password is invalid"
    @@ 973 :> "The database is invalid"
    @@ 974 :> "Permission Denied"
    @@ 975 :> "The field has restricted access"
    @@ 976 :> "Security is disabled"
    @@ 977 :> "Invalid client IP address"
    @@ 978 :> "The number of allowed guests has been exceeded"
    @@ 1200 :> "Generic calculation error"
    @@ 1201 :> "Too few parameters in the function"
    @@ 1202 :> "Too many parameters in the function"
    @@ 1203 :> "Unexpected end of calculation"
    @@ 1204 :> "Number, text constant, field name or \"(\" expected"
    @@ 1205 :> "Comment is not terminated with \"*/\""
    @@ 1206 :> "Text constant must end with a quotation mark"
    @@ 1207 :> "Unbalanced parenthesis"
    @@ 1208 :> "Operator missing, function not found or \"(\" not expected"
    @@ 1209 :> "Name (such as field name or layout name) is missing"
    @@ 1210 :> "Plug-in function has already been registered"
    @@ 1211 :> "List usage is not allowed in this function"
    @@ 1212 :> "An operator (for example, +, -, *) is expected here"
    @@ 1213 :> "This variable has already been defined in the Let function"
    @@ 1214 :> "AVERAGE, COUNT, EXTEND, GETREPETITION, MAX, MIN, NPV, STDEV, SUM and GETSUMMARY: expression found where a field alone is needed"
    @@ 1215 :> "This parameter is an invalid Get function parameter"
    @@ 1216 :> "Only Summary fields allowed as first argument in GETSUMMARY"
    @@ 1217 :> "Break field is invalid"
    @@ 1218 :> "Cannot evaluate the number"
    @@ 1219 :> "A field cannot be used in its own formula"
    @@ 1220 :> "Field type must be normal or calculated"
    @@ 1221 :> "Data type must be number, date, time, or timestamp"
    @@ 1222 :> "Calculation cannot be stored"
    @@ 1223 :> "The function referred to does not exist"
    @@ 1400 :> "ODBC driver initialization failed; make sure the ODBC drivers are properly installed"
    @@ 1401 :> "Failed to allocate environment (ODBC)"
    @@ 1402 :> "Failed to free environment (ODBC)"
    @@ 1403 :> "Failed to disconnect (ODBC)"
    @@ 1404 :> "Failed to allocate connection (ODBC)"
    @@ 1405 :> "Failed to free connection (ODBC)"
    @@ 1406 :> "Failed check for SQL API (ODBC)"
    @@ 1407 :> "Failed to allocate statement (ODBC)"
    @@ 1408 :> "Extended error (ODBC)"
    @@ 1413 :> "Failed communication link (ODBC)"
    @@ 1414 :> "SQL statement is too long"
    @@ 1450 :> "Action requires PHP privilege extension (*)"
    @@ 1451 :> "Action requires that current file be remote"
    @@ 1501 :> "SMTP authentication failed"
    @@ 1502 :> "Connection refused by SMTP server"
    @@ 1503 :> "Error with SSL"
    @@ 1504 :> "SMTP server requires the connection to be encrypted"
    @@ 1505 :> "Specified authentication is not supported by SMTP server"
    @@ 1506 :> "Email message(s) could not be sent successfully"
    @@ 1507 :> "Unable to log in to the SMTP server"
    @@ 1550 :> "Cannot load the plug-in, or the plug-in is not a valid plug-in"
    @@ 1551 :> "Cannot install the plug-in; cannot delete an existing plug-in or write to the folder or disk"
    @@ 1626 :> "Protocol is not supported"
    @@ 1627 :> "Authentication failed"
    @@ 1628 :> "There was an error with SSL"
    @@ 1629 :> "Connection timed out; the timeout value is 60 seconds"
    @@ 1630 :> "URL format is incorrect"
    @@ 1631 :> "Connection failed"
    @@ 1632 :> "Certificate cannot be authenticated by a supported certificate authority"
    @@ 1633 :> "Certificate is valid but still causes an error (for example, the certificate has expired)"

\* FMError.__init__ without the lookup in CODES
FMError_NoLookup(error) ==
    IF error.t = "int"
    THEN [code |-> error.n,
          message |-> "FileMaker Error " \o ToString(error.n) \o ": Unknown error code"]
    ELSE [code |-> -1, message |-> Str(error)]

\* FMError(error): code and message (what str(exc) gives) of the exception
FMError(error) ==
    IF error.t = "int"
    THEN [code |-> error.n,
          message |-> "FileMaker Error " \o ToString(error.n) \o ": "
                      \o (IF error.n \in DOMAIN CODES THEN CODES[error.n]
                          ELSE "Unknown error code")]
    ELSE [code |-> -1, message |-> Str(error)]

(***************************************************************************)
(* The client: the fields of an FM object, and what the last call did.     *)
(***************************************************************************)
VARIABLES _server, _port, _protocol, _escrslt, _dbuser, _dbpasswd,
          _dbdata, _dbparams, _maxret,
          \* the pairs builder calls appended since the last submit
          appended,
          \* the last call made on the client and how it ended
          lastCall, outcome

vars == <<_server, _port, _protocol, _escrslt, _dbuser, _dbpasswd,
          _dbdata, _dbparams, _maxret, appended, lastCall, outcome>>

config == <<_server, _port, _protocol>>

Call(op, args) == [op |-> op, args |-> args]

NoResult == [errorcode |-> 0, product |-> <<>>, database |-> <<>>, metadata |-> <<>>,
             resultset |-> <<>>, url |-> "", httpinfo |-> ""]

\* a call that returned None
Returned == [kind |-> "returned", exc |-> "", code |-> 0, message |-> "",
             sent |-> FALSE, body |-> "", result |-> NoResult]

\* a call that raised an exception other than FMError
Raised(exc, sent, body) ==
    [kind |-> "raised", exc |-> exc, code |-> 0, message |-> "",
     sent |-> sent, body |-> body, result |-> NoResult]

\* a submit that raised FMError(error)
RaisedFMError(error, body) ==
    [kind |-> "raised", exc |-> "FMError", code |-> FMError(error).code,
     message |-> FMError(error).message,
     sent |-> TRUE, body |-> body, result |-> NoResult]

\* a submit that returned an FMPXMLResult
ReturnedResult(result, body) ==
    [kind |-> "result", exc |-> "", code |-> 0, message |-> "",
     sent |-> TRUE, body |-> body, result |-> result]

\* FM.__init__('filemaker.domain.com')
Init ==
    /\ _server = "filemaker.domain.com"
    /\ _port = 80
    /\ _protocol = "http"
    /\ _escrslt = FALSE
    /\ _dbuser = ""
    /\ _dbpasswd = ""
    /\ _dbdata = <<>>
    /\ _dbparams = <<>>
    /\ _maxret = PyInt(50)
    /\ appended = <<>>
    /\ lastCall = Call("__init__", <<>>)
    /\ outcome = Returned

\* what a builder call leaves behind: the new pending parameters, the pairs
\* it appended, the call and its outcome
Built(params, call, out) ==
    /\ _dbparams' = params
    /\ appended' = appended \o SubSeq(params, Len(_dbparams) + 1, Len(params))
    /\ lastCall' = call
    /\ outcome' = out

CanBuild == Len(_dbparams) < MaxParams

(***************************************************************************)
(* Request Builder                                                         *)
(***************************************************************************)
\* (name, layout, maxret, response) of the modelled set_db_data calls; maxret
\* is 50 and response None where the caller omits them
DbDataArgs == {<<"Test", "data entry", PyInt(50), PyNone>>,
               <<"Contacts", "web entry", PyInt(7), PyStr("web")>>}
\* the same for SpecTransport: an empty response layout, and a database name
\* that holds a lone surrogate
TransportDbDataArgs == {<<"Test", "data entry", PyInt(50), PyStr("")>>,
                        <<"T|", "data entry", PyInt(50), PyNone>>}

\* set_db_data without the reset of _dbdata
set_db_data_NoReset(name, layout, maxret, response) ==
    /\ _dbdata' = _dbdata \o <<<<"-db", PyStr(name)>>, <<"-lay", PyStr(layout)>>>>
                  \o (IF Truthy(response) THEN <<<<"-lay.response", response>>>>
                      ELSE <<>>)
    /\ _maxret' = maxret
    /\ lastCall' = Call("set_db_data", <<PyStr(name), PyStr(layout), maxret, response>>)
    /\ outcome' = Returned
    /\ UNCHANGED <<config, _escrslt, _dbuser, _dbpasswd, _dbparams, appended>>

\* set_db_data that also resets _dbparams
set_db_data_ClearsPending(name, layout, maxret, response) ==
    /\ _dbdata' = <<<<"-db", PyStr(name)>>, <<"-lay", PyStr(layout)>>>>
                  \o (IF Truthy(response) THEN <<<<"-lay.response", response>>>>
                      ELSE <<>>)
    /\ _maxret' = maxret
    /\ _dbparams' = <<>>
    /\ lastCall' = Call("set_db_data", <<PyStr(name), PyStr(layout), maxret, response>>)
    /\ outcome' = Returned
    /\ UNCHANGED <<config, _escrslt, _dbuser, _dbpasswd, appended>>

set_db_data(name, layout, maxret, response) ==
    /\ _dbdata' = <<<<"-db", PyStr(name)>>, <<"-lay", PyStr(layout)>>>>
                  \o (IF Truthy(response) THEN <<<<"-lay.response", response>>>>
                      ELSE <<>>)
    /\ _maxret' = maxret
    /\ lastCall' = Call("set_db_data", <<PyStr(name), PyStr(layout), maxret, response>>)
    /\ outcome' = Returned
    /\ UNCHANGED <<config, _escrslt, _dbuser, _dbpasswd, _dbparams, appended>>

set_db_password(username, password) ==
    /\ _dbuser' = username
    /\ _dbpasswd' = password
    /\ lastCall' = Call("set_db_password", <<PyStr(username), PyStr(password)>>)
    /\ outcome' = Returned
    /\ UNCHANGED <<config, _escrslt, _dbdata, _dbparams, _maxret, appended>>

ScriptOptions == {PyNone, PyStr("presort")}

set_script(name, option) ==
    /\ CanBuild
    /\ LET key == IF option \in {PyStr("prefind"), PyStr("presort")}
                  THEN "-script" \o "." \o option.s ELSE "-script"
       IN Built(Append(_dbparams, <<key, PyStr(name)>>),
                Call("set_script", <<PyStr(name), option>>), Returned)
    /\ UNCHANGED <<config, _escrslt, _dbuser, _dbpasswd, _dbdata, _maxret>>

set_record_id(recid) ==
    /\ CanBuild
    /\ Built(Append(_dbparams, <<"-recid", recid>>),
             Call("set_record_id", <<recid>>), Returned)
    /\ UNCHANGED <<config, _escrslt, _dbuser, _dbpasswd, _dbdata, _maxret>>

set_modifier_id(modid) ==
    /\ CanBuild
    /\ Built(Append(_dbparams, <<"-modid", modid>>),
             Call("set_modifier_id", <<modid>>), Returned)
    /\ UNCHANGED <<config, _escrslt, _dbuser, _dbpasswd, _dbdata, _maxret>>

set_logical_or ==
    /\ CanBuild
    /\ Built(Append(_dbparams, <<"-lop", PyStr("or")>>),
             Call("set_logical_or", <<>>), Returned)
    /\ UNCHANGED <<config, _escrslt, _dbuser, _dbpasswd, _dbdata, _maxret>>

GroupSizeArgs == {PyStr("7"), PyStr("all")}

set_group_size(maxret) ==
    /\ IF IntOk(maxret)
       THEN /\ _maxret' = PyInt(IntVal(maxret))
            /\ outcome' = Returned
       ELSE /\ _maxret' = _maxret
            /\ outcome' = Raised("ValueError", FALSE, "")
    /\ lastCall' = Call("set_group_size", <<maxret>>)
    /\ UNCHANGED <<config, _escrslt, _dbuser, _dbpasswd, _dbdata, _dbparams, appended>>

SkipArgs == {PyInt(0), PyStr("0"), PyInt(3), PyStr("next")}

\* set_skip_records testing skip instead of int(skip)
set_skip_records_Truthy(skip) ==
    /\ CanBuild
    /\ IF ~IntOk(skip)
       THEN Built(_dbparams, Call("set_skip_records", <<skip>>),
                  Raised("ValueError", FALSE, ""))
       ELSE IF Truthy(skip)
       THEN Built(Append(_dbparams, <<"-skip", skip>>),
                  Call("set_skip_records", <<skip>>), Returned)
       ELSE Built(_dbparams, Call("set_skip_records", <<skip>>), Returned)
    /\ UNCHANGED <<config, _escrslt, _dbuser, _dbpasswd, _dbdata, _maxret>>

set_skip_records(skip) ==
    /\ CanBuild
    /\ IF ~IntOk(skip)
       THEN Built(_dbparams, Call("set_skip_records", <<skip>>),
                  Raised("ValueError", FALSE, ""))
       ELSE IF IntVal(skip) # 0
       THEN Built(Append(_dbparams, <<"-skip", skip>>),
                  Call("set_skip_records", <<skip>>), Returned)
       ELSE Built(_dbparams, Call("set_skip_records", <<skip>>), Returned)
    /\ UNCHANGED <<config, _escrslt, _dbuser, _dbpasswd, _dbdata, _maxret>>

\* True and False are the ints 1 and 0
EscapeArgs == {PyInt(1), PyInt(0)}

set_escape(value) ==
    /\ _escrslt' = Truthy(value)
    /\ lastCall' = Call("set_escape", <<value>>)
    /\ outcome' = Returned
    /\ UNCHANGED <<config, _dbuser, _dbpasswd, _dbdata, _dbparams, _maxret, appended>>

\* (field, value, op) of the modelled add_db_param calls
AddParamArgs == {<<"a&b", PyStr("^= +%"), PyStr("bw")>>,
                 <<"LAST", PyStr("Doe"), PyStr("")>>,
                 <<"n", PyInt(7), PyNone>>}

\* add_db_param appending the operator pair whatever op is
add_db_param_pairs_AlwaysOp(params, field, value, op) ==
    Append(params, <<field, value>>) \o <<<<field \o ".op", op>>>>

\* the pairs add_db_param(field, value, op) appends to params
add_db_param_pairs(params, field, value, op) ==
    Append(params, <<field, value>>)
    \o (IF Truthy(op) THEN <<<<field \o ".op", op>>>> ELSE <<>>)

add_db_param(field, value, op) ==
    /\ CanBuild
    /\ Built(add_db_param_pairs(_dbparams, field, value, op),
             Call("add_db_param", <<PyStr(field), value, op>>), Returned)
    /\ UNCHANGED <<config, _escrslt, _dbuser, _dbpasswd, _dbdata, _maxret>>

\* the fieldvalues of the modelled add_db_params calls
FieldValuesArgs == {<<<<"FIRST", PyStr("John")>>, <<"LAST", PyStr("Doe")>>>>}

RECURSIVE add_db_params_pairs(_, _)
add_db_params_pairs(params, fieldvalues) ==
    IF fieldvalues = <<>> THEN params
    ELSE add_db_params_pairs(
             add_db_param_pairs(params, fieldvalues[1][1], fieldvalues[1][2], PyNone),
             Tail(fieldvalues))

add_db_params(fieldvalues) ==
    /\ CanBuild
    /\ Built(add_db_params_pairs(_dbparams, fieldvalues),
             Call("add_db_params", fieldvalues), Returned)
    /\ UNCHANGED <<config, _escrslt, _dbuser, _dbpasswd, _dbdata, _maxret>>

\* (field, order, priority) of the modelled add_sort_param calls
SortArgs == {<<"LAST", "ascend", 2>>, <<"FIRST", "descend", 1>>}

\* add_sort_param keeping the sort criteria in the order of their priorities
add_sort_param_ByPriority(field, order, priority) ==
    /\ CanBuild
    /\ LET new == <<<<"-sortfield." \o ToString(priority), PyStr(field)>>,
                    <<"-sortorder." \o ToString(priority), PyStr(order)>>>>
           first == \E i \in 1..Len(_dbparams) :
                       _dbparams[i][1] = "-sortfield." \o ToString(priority + 1)
       IN Built(IF first THEN new \o _dbparams ELSE _dbparams \o new,
                Call("add_sort_param", <<PyStr(field), PyStr(order), PyInt(priority)>>),
                Returned)
    /\ UNCHANGED <<config, _escrslt, _dbuser, _dbpasswd, _dbdata, _maxret>>

add_sort_param(field, order, priority) ==
    /\ CanBuild
    /\ Built(_dbparams \o <<<<"-sortfield." \o ToString(priority), PyStr(field)>>,
                            <<"-sortorder." \o ToString(priority), PyStr(order)>>>>,
             Call("add_sort_param", <<PyStr(field), PyStr(order), PyInt(priority)>>),
             Returned)
    /\ UNCHANGED <<config, _escrslt, _dbuser, _dbpasswd, _dbdata, _maxret>>

(***************************************************************************)
(* Response Parser                                                         *)
(***************************************************************************)
\* an lxml element: tag, attribute mapping, text (None or str), children
El(tag, attrib, text, children) ==
    [tag |-> tag, attrib |-> attrib, text |-> text, children |-> children]

NoAttr == [k \in {} |-> ""]

PyList(items) == [t |-> "list", s |-> "", n |-> 0, items |-> items]

\* html.escape(s, quote=True), character by character
HtmlEscapeChar(c) == CASE c = "&" -> "&amp;"
                       [] c = "<" -> "&lt;"
                       [] c = ">" -> "&gt;"
                       [] c = "\"" -> "&quot;"
                       [] c = "'" -> "&#x27;"
                       [] OTHER -> c

\* the non-ASCII characters of the model and their code points
CodePoint == EAcute :> 233 @@ Surrogate :> 56448

\* str.encode('ascii', 'xmlcharrefreplace'), character by character
XmlCharRef(c) == IF c \in DOMAIN CodePoint
                 THEN "&#" \o ToString(CodePoint[c]) \o ";" ELSE c

\* bytes.replace(b"'", b'&#39;'), character by character
ReplaceApos(c) == IF c = "'" THEN "&#39;" ELSE c

RECURSIVE HtmlEscape(_)
HtmlEscape(s) == IF s = "" THEN "" ELSE HtmlEscapeChar(Head(s)) \o HtmlEscape(Tail(s))

RECURSIVE XmlCharRefReplace(_)
XmlCharRefReplace(s) ==
    IF s = "" THEN "" ELSE XmlCharRef(Head(s)) \o XmlCharRefReplace(Tail(s))

RECURSIVE ReplaceAposAll(_)
ReplaceAposAll(s) ==
    IF s = "" THEN "" ELSE ReplaceApos(Head(s)) \o ReplaceAposAll(Tail(s))

escape_unicode(ustr) ==
    ReplaceAposAll(XmlCharRefReplace(HtmlEscape(Strip(ustr))))

DTYPES == [k \in {"NUMBER", "TEXT", "DATE", "TIME", "TIMESTAMP", "CONTAINER",
                  "CALCULATION", "SUMMARY"} |-> "str"]

\* the exception FMField(attributes) raises, "" when it raises none
FMFieldExc(attributes) ==
    IF "NAME" \notin DOMAIN attributes THEN "KeyError"
    ELSE IF "MAXREPEAT" \notin DOMAIN attributes THEN "KeyError"
    ELSE IF ~IntOk(PyStr(attributes["MAXREPEAT"])) THEN "ValueError"
    ELSE IF "EMPTYOK" \notin DOMAIN attributes THEN "KeyError"
    ELSE ""

FMField(attributes) ==
    [name |-> attributes["NAME"],
     maxrepeat |-> IntVal(PyStr(attributes["MAXREPEAT"])),
     emptyok |-> attributes["EMPTYOK"] = "YES",
     dtype |-> IF "TYPE" \in DOMAIN attributes /\ attributes["TYPE"] \in DOMAIN DTYPES
               THEN DTYPES[attributes["TYPE"]] ELSE "str"]

\* the first exception FMField raises for the fields from the i-th on
RECURSIVE FieldsExc(_, _)
FieldsExc(fields, i) ==
    IF i > Len(fields) THEN ""
    ELSE IF FMFieldExc(fields[i].attrib) # "" THEN FMFieldExc(fields[i].attrib)
    ELSE FieldsExc(fields, i + 1)

\* int(attrib[key])
IntAttrExc(attrib, key) ==
    IF key \notin DOMAIN attrib THEN "KeyError"
    ELSE IF ~IntOk(PyStr(attrib[key])) THEN "ValueError"
    ELSE ""

Min(a, b) == IF a < b THEN a ELSE b

\* the repetitions loop with continue in place of break: a gap is skipped
RECURSIVE Repetitions_SkipGaps(_, _, _)
Repetitions_SkipGaps(children, escrslt, md) ==
    IF children = <<>> THEN <<>>
    ELSE IF children[1].text = PyNone
    THEN Repetitions_SkipGaps(Tail(children), escrslt, md)
    ELSE <<IF escrslt /\ md.dtype = "str" THEN escape_unicode(children[1].text.s)
           ELSE children[1].text.s>>
         \o Repetitions_SkipGaps(Tail(children), escrslt, md)

\* the texts of the children of cn up to the first child without text
RECURSIVE Repetitions(_, _, _)
Repetitions(children, escrslt, md) ==
    IF children = <<>> \/ children[1].text = PyNone THEN <<>>
    ELSE <<IF escrslt /\ md.dtype = "str" THEN escape_unicode(children[1].text.s)
           ELSE children[1].text.s>>
         \o Repetitions(Tail(children), escrslt, md)

\* FieldValue without the test for None: a sub-element without text gives ''
FieldValue_EmptyForNone(md, cn, escrslt) ==
    IF md.maxrepeat = 1
    THEN IF cn.children[1].text = PyNone THEN PyStr("")
         ELSE PyStr(IF escrslt /\ md.dtype = "str"
                    THEN escape_unicode(cn.children[1].text.s)
                    ELSE cn.children[1].text.s)
    ELSE PyList(Repetitions(cn.children, escrslt, md))

\* the value of the field md decoded from the element cn
FieldValue(md, cn, escrslt) ==
    IF md.maxrepeat = 1
    THEN IF cn.children[1].text = PyNone THEN PyNone
         ELSE PyStr(IF escrslt /\ md.dtype = "str"
                    THEN escape_unicode(cn.children[1].text.s)
                    ELSE cn.children[1].text.s)
    ELSE PyList(Repetitions(cn.children, escrslt, md))

\* the exception raised while decoding row, "" when none is
RowExc(row, metadata) ==
    IF IntAttrExc(row.attrib, "MODID") # "" THEN IntAttrExc(row.attrib, "MODID")
    ELSE IF IntAttrExc(row.attrib, "RECORDID") # ""
    THEN IntAttrExc(row.attrib, "RECORDID")
    ELSE IF \E i \in 1..Min(Len(metadata), Len(row.children)) :
                metadata[i].maxrepeat = 1 /\ row.children[i].children = <<>>
    THEN "IndexError"
    ELSE ""

\* the first exception raised while decoding the rows from the i-th on
RECURSIVE RowsExc(_, _, _)
RowsExc(rows, metadata, i) ==
    IF i > Len(rows) THEN ""
    ELSE IF RowExc(rows[i], metadata) # "" THEN RowExc(rows[i], metadata)
    ELSE RowsExc(rows, metadata, i + 1)

RECURSIVE RecordFields(_, _, _, _, _)
RecordFields(record, row, metadata, escrslt, i) ==
    IF i > Min(Len(metadata), Len(row.children)) THEN record
    ELSE RecordFields(
             (metadata[i].name :> FieldValue(metadata[i], row.children[i], escrslt))
             @@ record,
             row, metadata, escrslt, i + 1)

\* the Result Record of row
Record(row, metadata, escrslt) ==
    RecordFields(("MODID" :> PyInt(IntVal(PyStr(row.attrib["MODID"]))))
                 @@ ("RECORDID" :> PyInt(IntVal(PyStr(row.attrib["RECORDID"])))),
                 row, metadata, escrslt, 1)

\* results.errorcode without the except clause's -1
ErrorCode_NoSentinel(root) ==
    IF Len(root.children) >= 1 /\ IntOk(root.children[1].text)
    THEN IntVal(root.children[1].text) ELSE 0

\* results.errorcode of the document root
ErrorCode(root) ==
    IF Len(root.children) >= 1 /\ IntOk(root.children[1].text)
    THEN IntVal(root.children[1].text) ELSE -1

\* the exception raised while decoding a document of status 0, "" when none is
ParseExc(root) ==
    IF Len(root.children) < 4 THEN "IndexError"
    ELSE LET fields == root.children[4].children
         IN IF FieldsExc(fields, 1) # "" THEN FieldsExc(fields, 1)
            ELSE IF Len(root.children) < 5 THEN "IndexError"
            ELSE RowsExc(root.children[5].children,
                         [i \in 1..Len(fields) |-> FMField(fields[i].attrib)], 1)

\* the FMPXMLResult decoded from a document of status 0
Parse(root, url, httpinfo, escrslt) ==
    LET fields == root.children[4].children
        metadata == [i \in 1..Len(fields) |-> FMField(fields[i].attrib)]
        rows == root.children[5].children
    IN [errorcode |-> 0,
        product |-> root.children[2].attrib,
        database |-> root.children[3].attrib,
        metadata |-> metadata,
        resultset |-> [i \in 1..Len(rows) |-> Record(rows[i], metadata, escrslt)],
        url |-> url,
        httpinfo |-> httpinfo]

(***************************************************************************)
(* Transport                                                               *)
(***************************************************************************)
\* what urlopen(request) does: it returns a response (the headers and the
\* document read from it), or raises HTTPError, URLError or another exception
Response(net, code, msg, wf, root) ==
    [net |-> net, code |-> code, msg |-> msg, httpinfo |-> "Content-Type: text/xml",
     wf |-> wf, root |-> root]

NoDocument == El("", NoAttr, PyNone, <<>>)

\* a server-returned HTTP error status
HTTPErrors == {Response("HTTPError", 404, "Not Found", FALSE, NoDocument)}
\* a connection-level failure urlopen reports as URLError(reason)
URLErrors == {Response("URLError", 0, "[Errno 111] Connection refused", FALSE, NoDocument)}
\* the server closes the connection without a response: getresponse() raises
\* http.client.RemoteDisconnected, which urlopen does not wrap
OtherErrors == {Response("RemoteDisconnected", 0, "", FALSE, NoDocument)}
\* a response that is not well-formed XML: etree.parse raises
Malformed == {Response("ok", 200, "OK", FALSE, NoDocument)}

Document(children) == Response("ok", 200, "OK", TRUE, El("FMPXMLRESULT", NoAttr, PyNone, children))

ERRORCODE(text) == El("ERRORCODE", NoAttr, text, <<>>)
PRODUCT == El("PRODUCT", "NAME" :> "FileMaker Web Publishing Engine", PyNone, <<>>)
DATABASE == El("DATABASE", "NAME" :> "Test" @@ "LAYOUT" :> "data entry", PyNone, <<>>)
FIELD(name, type, maxrepeat) ==
    El("FIELD", "NAME" :> name @@ "TYPE" :> type @@ "MAXREPEAT" :> maxrepeat
                @@ "EMPTYOK" :> "YES", PyNone, <<>>)
DATA(text) == El("DATA", NoAttr, text, <<>>)
COL(data) == El("COL", NoAttr, PyNone, data)
ROW(recordid, modid, cols) ==
    El("ROW", "RECORDID" :> recordid @@ "MODID" :> modid, PyNone, cols)

\* the status elements of the modelled documents: without text, text that
\* is no integer, the codes 401 and 105, and a code outside FMError.CODES
StatusTexts == {PyNone, PyStr("n/a"), PyStr("401"), PyStr("105"), PyStr("1000")}

\* the fixture of the end-to-end scenario: status 0, the field LAST and one record
Fixture ==
    Document(<<ERRORCODE(PyStr("0")), PRODUCT, DATABASE,
               El("METADATA", NoAttr, PyNone, <<FIELD("LAST", "TEXT", "1")>>),
               El("RESULTSET", "FOUND" :> "1", PyNone,
                  <<ROW("7", "2", <<COL(<<DATA(PyStr("Doe"))>>)>>)>>)>>)

Documents ==
    {Document(<<>>)}
    \cup {Document(<<ERRORCODE(t), PRODUCT, DATABASE,
                     El("METADATA", NoAttr, PyNone, <<>>),
                     El("RESULTSET", "FOUND" :> "0", PyNone, <<>>)>>) : t \in StatusTexts}
    \cup {Document(<<ERRORCODE(PyStr("0"))>>), Fixture}

Responses == HTTPErrors \cup URLErrors \cup OtherErrors \cup Malformed \cup Documents

\* a document of status 0 with the given FIELD and ROW elements
ResultDocument(fields, rows) ==
    Document(<<ERRORCODE(PyStr("0")), PRODUCT, DATABASE,
               El("METADATA", NoAttr, PyNone, fields),
               El("RESULTSET", "FOUND" :> ToString(Len(rows)), PyNone, rows)>>)

\* a text with surrounding blanks and the characters the escape transform
\* touches
Markup == " a<b&c'd\"e^> "

\* the documents that answer the submits of SpecParser
\* no record at all
NoRecords == ResultDocument(<<FIELD("LAST", "TEXT", "1")>>, <<>>)
\* two fields, one of a type outside FMField.DTYPES, and two records, the
\* second with sub-elements that have no text
TwoRecords ==
    ResultDocument(<<FIELD("LAST", "TEXT", "1"), FIELD("NOTE", "GLOBAL", "1")>>,
                   <<ROW("7", "2", <<COL(<<DATA(PyStr("Doe"))>>),
                                     COL(<<DATA(PyStr(Markup))>>)>>),
                     ROW("8", "1", <<COL(<<DATA(PyNone)>>),
                                     COL(<<DATA(PyStr("it's"))>>)>>)>>)
\* a field of three repetitions: two texts then none, a gap in the middle,
\* no text at all, and all three
Repeating ==
    ResultDocument(<<FIELD("PHONE", "TEXT", "3")>>,
                   <<ROW("1", "0", <<COL(<<DATA(PyStr("a<")), DATA(PyStr("b")),
                                           DATA(PyNone)>>)>>),
                     ROW("2", "0", <<COL(<<DATA(PyStr("a")), DATA(PyNone),
                                           DATA(PyStr("c"))>>)>>),
                     ROW("3", "0", <<COL(<<DATA(PyNone), DATA(PyNone),
                                           DATA(PyNone)>>)>>),
                     ROW("4", "0", <<COL(<<DATA(PyStr("a")), DATA(PyStr("b")),
                                           DATA(PyStr("c"))>>)>>)>>)
\* the layout shows fields that are named RECORDID and MODID
IdNamed ==
    ResultDocument(<<FIELD("RECORDID", "NUMBER", "1"), FIELD("MODID", "NUMBER", "1")>>,
                   <<ROW("7", "2", <<COL(<<DATA(PyStr("9"))>>),
                                     COL(<<DATA(PyNone)>>)>>)>>)
\* a row with fewer columns than there are fields
ShortRow ==
    ResultDocument(<<FIELD("LAST", "TEXT", "1"), FIELD("FIRST", "TEXT", "1")>>,
                   <<ROW("7", "2", <<COL(<<DATA(PyStr("Doe"))>>)>>)>>)
\* a column without sub-element, and a row whose MODID is no integer
EmptyColumn ==
    ResultDocument(<<FIELD("LAST", "TEXT", "1")>>, <<ROW("7", "2", <<COL(<<>>)>>)>>)
BadModId ==
    ResultDocument(<<FIELD("LAST", "TEXT", "1")>>,
                   <<ROW("7", "x", <<COL(<<DATA(PyStr("Doe"))>>)>>)>>)

ParserDocuments ==
    {Fixture, NoRecords, TwoRecords, Repeating, IdNamed, ShortRow, EmptyColumn, BadModId}

\* str(HTTPError)
HTTPErrorStr(code, msg) == "HTTP Error " \o ToString(code) \o ": " \o msg

\* FM.URL.format(**self.__dict__)
URL == _protocol \o "://" \o _server \o ":" \o ToString(_port)
       \o "/fmi/xml/FMPXMLRESULT.xml"

\* _commit raising FMError() without the status code
Submit_NoCode(data, resp) ==
    IF resp.net = "HTTPError"
    THEN RaisedFMError(PyStr(HTTPErrorStr(resp.code, resp.msg)), data)
    ELSE IF resp.net = "URLError"
    THEN RaisedFMError(PyStr("URL Error: " \o resp.msg), data)
    ELSE IF resp.net # "ok" THEN Raised(resp.net, TRUE, data)
    ELSE IF ~resp.wf THEN Raised("XMLSyntaxError", TRUE, data)
    ELSE IF ErrorCode(resp.root) # 0
    THEN RaisedFMError(PyInt(-1), data)
    ELSE IF ParseExc(resp.root) # "" THEN Raised(ParseExc(resp.root), TRUE, data)
    ELSE ReturnedResult(Parse(resp.root, URL \o "?" \o data, resp.httpinfo, _escrslt),
                        data)

\* _commit from the network call on: the request body data has been built
Submit(data, resp) ==
    IF resp.net = "HTTPError"
    THEN RaisedFMError(PyStr(HTTPErrorStr(resp.code, resp.msg)), data)
    ELSE IF resp.net = "URLError"
    THEN RaisedFMError(PyStr("URL Error: " \o resp.msg), data)
    ELSE IF resp.net # "ok" THEN Raised(resp.net, TRUE, data)
    ELSE IF ~resp.wf THEN Raised("XMLSyntaxError", TRUE, data)
    ELSE IF ErrorCode(resp.root) # 0
    THEN RaisedFMError(PyInt(ErrorCode(resp.root)), data)
    ELSE IF ParseExc(resp.root) # "" THEN Raised(ParseExc(resp.root), TRUE, data)
    ELSE ReturnedResult(Parse(resp.root, URL \o "?" \o data, resp.httpinfo, _escrslt),
                        data)

\* _commit that also resets _dbdata
_commit_ClearsSelection(method, action, resp) ==
    /\ Len(_dbparams) <= MaxParams + 1
    /\ LET params == Append(_dbparams, <<"-max", _maxret>>)
       IN IF ~UrlencodeOk(_dbdata \o params)
          THEN /\ _dbparams' = params
               /\ outcome' = Raised("UnicodeEncodeError", FALSE, "")
          ELSE /\ _dbparams' = <<>>
               /\ outcome' = Submit(Urlencode(_dbdata \o params) \o "&-" \o action, resp)
    /\ _dbdata' = <<>>
    /\ appended' = <<>>
    /\ lastCall' = Call(method, <<resp>>)
    /\ UNCHANGED <<config, _escrslt, _dbuser, _dbpasswd, _maxret>>

_commit(method, action, resp) ==
    /\ Len(_dbparams) <= MaxParams + 1
    /\ LET params == Append(_dbparams, <<"-max", _maxret>>)
       IN IF ~UrlencodeOk(_dbdata \o params)
          THEN /\ _dbparams' = params
               /\ outcome' = Raised("UnicodeEncodeError", FALSE, "")
          ELSE /\ _dbparams' = <<>>
               /\ outcome' = Submit(Urlencode(_dbdata \o params) \o "&-" \o action, resp)
    /\ appended' = <<>>
    /\ lastCall' = Call(method, <<resp>>)
    /\ UNCHANGED <<config, _escrslt, _dbuser, _dbpasswd, _dbdata, _maxret>>

fm_find(resp) == _commit("fm_find", "find", resp)
fm_find_all(resp) == _commit("fm_find_all", "findall", resp)
fm_edit(resp) == _commit("fm_edit", "edit", resp)
fm_new(resp) == _commit("fm_new", "new", resp)
fm_delete(resp) == _commit("fm_delete", "delete", resp)

(***************************************************************************)
(* The calls a client makes.  Spec draws the calls that build a request    *)
(* from all their modelled arguments and answers a submit with the         *)
(* one-record fixture of the end-to-end scenario.  SpecTransport makes few *)
(* of those calls, sets credentials and output escaping, and answers a     *)
(* submit with every modelled response.                                    *)
(***************************************************************************)
Next ==
    \/ \E a \in DbDataArgs : set_db_data(a[1], a[2], a[3], a[4])
    \/ \E option \in ScriptOptions : set_script("sync", option)
    \/ set_record_id(PyInt(7))
    \/ set_modifier_id(PyInt(2))
    \/ set_logical_or
    \/ \E maxret \in GroupSizeArgs : set_group_size(maxret)
    \/ \E skip \in SkipArgs : set_skip_records(skip)
    \/ \E a \in AddParamArgs : add_db_param(a[1], a[2], a[3])
    \/ \E fieldvalues \in FieldValuesArgs : add_db_params(fieldvalues)
    \/ \E a \in SortArgs : add_sort_param(a[1], a[2], a[3])
    \/ \E resp \in {Fixture} : fm_find(resp)
    \/ \E resp \in {Fixture} : fm_find_all(resp)
    \/ \E resp \in {Fixture} : fm_edit(resp)
    \/ \E resp \in {Fixture} : fm_new(resp)
    \/ \E resp \in {Fixture} : fm_delete(resp)

Spec == Init /\ [][Next]_vars

NextTransport ==
    \/ \E a \in TransportDbDataArgs : set_db_data(a[1], a[2], a[3], a[4])
    \/ set_db_password("fmuser", "password")
    \/ \E value \in EscapeArgs : set_escape(value)
    \/ add_db_param("LAST", PyStr("Doe"), PyStr("bw"))
    \/ \E resp \in Responses : fm_find(resp)
    \/ \E resp \in Responses : fm_find_all(resp)
    \/ \E resp \in Responses : fm_edit(resp)
    \/ \E resp \in Responses : fm_new(resp)
    \/ \E resp \in Responses : fm_delete(resp)

SpecTransport == Init /\ [][NextTransport]_vars

\* SpecParser selects a database, switches output escaping and answers a
\* submit with every document of ParserDocuments.
NextParser ==
    \/ set_db_data("Test", "data entry", PyInt(50), PyNone)
    \/ \E value \in EscapeArgs : set_escape(value)
    \/ \E resp \in ParserDocuments : fm_find(resp)
    \/ \E resp \in ParserDocuments : fm_find_all(resp)
    \/ \E resp \in ParserDocuments : fm_edit(resp)
    \/ \E resp \in ParserDocuments : fm_new(resp)
    \/ \E resp \in ParserDocuments : fm_delete(resp)

SpecParser == Init /\ [][NextParser]_vars

(***************************************************************************)
(* Reading a request body back: urllib.parse.parse_qsl with blank values   *)
(* kept, the decoding the receiving server applies to form data.           *)
(***************************************************************************)
\* the index of the first c in s, 0 when there is none
RECURSIVE IndexOf(_, _, _)
IndexOf(s, c, i) ==
    IF i > Len(s) THEN 0 ELSE IF Char(s, i) = c THEN i ELSE IndexOf(s, c, i + 1)

RECURSIVE Split(_, _)
Split(s, c) ==
    LET k == IndexOf(s, c, 1)
    IN IF k = 0 THEN <<s>>
       ELSE <<SubSeq(s, 1, k - 1)>> \o Split(SubSeq(s, k + 1, Len(s)), c)

RECURSIVE UnquotePlus(_)
UnquotePlus(s) ==
    IF s = "" THEN ""
    ELSE IF Head(s) = "+" THEN " " \o UnquotePlus(Tail(s))
    ELSE IF Head(s) # "%" THEN Head(s) \o UnquotePlus(Tail(s))
    ELSE LET hits == {c \in DOMAIN PercentTable :
                         /\ Len(PercentTable[c]) <= Len(s)
                         /\ SubSeq(s, 1, Len(PercentTable[c])) = PercentTable[c]}
         IN IF hits = {} THEN Head(s) \o UnquotePlus(Tail(s))
            ELSE LET c == CHOOSE x \in hits : TRUE
                 IN c \o UnquotePlus(SubSeq(s, Len(PercentTable[c]) + 1, Len(s)))

ParseQsl(qs) ==
    LET segs == Split(qs, "&")
    IN [i \in 1..Len(segs) |->
           LET k == IndexOf(segs[i], "=", 1)
           IN IF k = 0 THEN <<UnquotePlus(segs[i]), "">>
              ELSE <<UnquotePlus(SubSeq(segs[i], 1, k - 1)),
                     UnquotePlus(SubSeq(segs[i], k + 1, Len(segs[i])))>>]

\* the (key, value) strings a server reads from the pairs
StrPairs(pairs) == [i \in 1..Len(pairs) |-> <<pairs[i][1], Str(pairs[i][2])>>]

Submits == {"fm_find", "fm_find_all", "fm_new", "fm_edit", "fm_delete"}

\* the trailing flag of each submit
ActionFlag(op) == CASE op = "fm_find" -> "-find"
                    [] op = "fm_find_all" -> "-findall"
                    [] op = "fm_new" -> "-new"
                    [] op = "fm_edit" -> "-edit"
                    [] op = "fm_delete" -> "-delete"

StartsWith(s, prefix) ==
    Len(s) >= Len(prefix) /\ SubSeq(s, 1, Len(prefix)) = prefix

\* the response the last submit was answered with
Resp == lastCall.args[1]

Submitted == lastCall.op \in Submits

(***************************************************************************)
(* The claims                                                              *)
(***************************************************************************)
\* C1: after a submit has returned or raised, whatever its outcome, Pending
\* Parameters (_dbparams) is empty.
C1_PendingEmptyAfterSubmit == Submitted => _dbparams = <<>>

\* C2: the form body a submit sends is the Database Selection pairs, then
\* the pairs builder calls appended since the previous submit, then exactly
\* one (-max, limit) pair, then the action flag of the submit, and nothing
\* from before an earlier submit.
C2_BodyOfSubmit ==
    [][(lastCall'.op \in Submits /\ outcome'.sent) =>
          ParseQsl(outcome'.body) =
              StrPairs(_dbdata) \o StrPairs(appended)
              \o <<<<"-max", Str(_maxret)>>, <<ActionFlag(lastCall'.op), "">>>>]_vars

\* the status element of the response holds the decimal number n
StatusIs(n) ==
    /\ Resp.net = "ok" /\ Resp.wf
    /\ Len(Resp.root.children) >= 1
    /\ Resp.root.children[1].text = PyStr(ToString(n))

\* C3: when the status code decoded from a transport-successful response is
\* nonzero, the submit raises FMError with that code and returns no result.
C3_NonzeroStatusRaises ==
    \A n \in {401, 105, 1000} :
        (Submitted /\ outcome.sent /\ StatusIs(n)) =>
            /\ outcome.kind = "raised" /\ outcome.exc = "FMError"
            /\ outcome.code = n
            /\ outcome.result = NoResult

C3_Witness == Submitted /\ outcome.sent /\ StatusIs(401) /\ outcome.code = 401

\* the response has no status element, or one whose text is no integer
StatusUnreadable ==
    /\ Resp.net = "ok" /\ Resp.wf
    /\ \/ Resp.root.children = <<>>
       \/ Resp.root.children[1].text \in {PyNone, PyStr("n/a")}

\* C4: a response whose status element is absent or holds a non-integer
\* gives status -1: the caller sees FMError with code -1, "Unknown error",
\* and no other error.
C4_UnreadableStatusIsUnknownError ==
    (Submitted /\ outcome.sent /\ StatusUnreadable) =>
        /\ outcome.kind = "raised" /\ outcome.exc = "FMError"
        /\ outcome.code = -1
        /\ outcome.message = "FileMaker Error -1: Unknown error"

C4_Witness ==
    /\ Submitted /\ outcome.sent /\ StatusUnreadable
    /\ Resp.root.children = <<>>
    /\ outcome.code = -1

\* C5: FMError built from the integer code c has code c and the message
\* "FileMaker Error c: m", m the entry of CODES for c, "Unknown error code"
\* when there is none; 401 gives "No records match the request".
C5_MessageOfCode ==
    (Submitted /\ outcome.exc = "FMError" /\ Resp.net = "ok") =>
        /\ outcome.message =
               "FileMaker Error " \o ToString(outcome.code) \o ": "
               \o (IF outcome.code \in DOMAIN CODES THEN CODES[outcome.code]
                   ELSE "Unknown error code")
        /\ StatusIs(401) =>
               outcome.message = "FileMaker Error 401: No records match the request"
        /\ StatusIs(1000) =>
               outcome.message = "FileMaker Error 1000: Unknown error code"
        /\ StatusIs(105) => outcome.message = "FileMaker Error 105: Layout is missing"

C5_Witness ==
    /\ Submitted /\ StatusIs(401)
    /\ outcome.message = "FileMaker Error 401: No records match the request"

\* C6: on any network or HTTP-layer failure of the POST the submit raises
\* FMError with code -1, and only for a connection-level failure does the
\* message start with "URL Error: ".
C6_TransportFailureIsFMError ==
    (Submitted /\ outcome.sent /\ Resp.net # "ok") =>
        /\ outcome.kind = "raised" /\ outcome.exc = "FMError"
        /\ outcome.code = -1
        /\ StartsWith(outcome.message, "URL Error: ") <=> Resp.net # "HTTPError"
        /\ outcome.result = NoResult

\* C7: after set_db_data, _dbdata holds only the given database, layout and
\* (when given and not empty) response layout, and _maxret is the maxret of
\* the call, whatever set_group_size set before.
C7_SelectReplaces ==
    lastCall.op = "set_db_data" =>
        LET name == lastCall.args[1]
            layout == lastCall.args[2]
            maxret == lastCall.args[3]
            response == lastCall.args[4]
        IN /\ _dbdata = <<<<"-db", name>>, <<"-lay", layout>>>>
                        \o (IF response \notin {PyNone, PyStr("")}
                            THEN <<<<"-lay.response", response>>>> ELSE <<>>)
           /\ _maxret = maxret

C7_Witness ==
    /\ lastCall = Call("set_db_data",
                       <<PyStr("Test"), PyStr("data entry"), PyInt(50), PyNone>>)
    /\ Len(_dbdata) = 2
    /\ _maxret = PyInt(50)
    /\ _dbparams # <<>>

\* a comparison operator is given: op is neither None nor empty
OpGiven(op) == op \notin {PyNone, PyStr("")}

\* C8: add_db_param appends (field, value) and, exactly when an operator is
\* given, the adjacent pair (field.op, operator); decoding the form data of
\* a criterion with operator bw gives field=value and then field.op=bw.
C8_FieldCriterion ==
    [][/\ lastCall'.op = "add_db_param" =>
              LET field == lastCall'.args[1].s
                  value == lastCall'.args[2]
                  op == lastCall'.args[3]
              IN _dbparams' = _dbparams \o <<<<field, value>>>>
                              \o (IF OpGiven(op) THEN <<<<field \o ".op", op>>>>
                                  ELSE <<>>)
       /\ (lastCall'.op \in Submits /\ outcome'.sent) =>
              \A i \in 1..Len(_dbparams) :
                  (i < Len(_dbparams) /\ _dbparams[i + 1][2] = PyStr("bw")) =>
                      /\ ParseQsl(outcome'.body)[Len(_dbdata) + i] =
                             <<_dbparams[i][1], Str(_dbparams[i][2])>>
                      /\ ParseQsl(outcome'.body)[Len(_dbdata) + i + 1] =
                             <<_dbparams[i][1] \o ".op", "bw">>]_vars

C8_Witness ==
    /\ Submitted /\ outcome.sent
    /\ \E i \in 1..(Len(ParseQsl(outcome.body)) - 1) :
           /\ ParseQsl(outcome.body)[i] = <<"a&b", "^= +%">>
           /\ ParseQsl(outcome.body)[i + 1] = <<"a&b.op", "bw">>
    /\ \E i \in 1..Len(ParseQsl(outcome.body)) :
           ParseQsl(outcome.body)[i] = <<"n", "7">>

IsSortKey(pair) == StartsWith(pair[1], "-sortfield.") \/ StartsWith(pair[1], "-sortorder.")

\* C9: add_sort_param appends (-sortfield.N, f) and then (-sortorder.N, o)
\* and changes nothing else; the request carries the sort criteria in the
\* order of the calls, whatever their priorities.
C9_SortCriterion ==
    [][/\ lastCall'.op = "add_sort_param" =>
              LET f == lastCall'.args[1]
                  o == lastCall'.args[2]
                  N == ToString(lastCall'.args[3].n)
              IN /\ _dbparams' = _dbparams \o <<<<"-sortfield." \o N, f>>,
                                                <<"-sortorder." \o N, o>>>>
                 /\ UNCHANGED <<config, _escrslt, _dbuser, _dbpasswd, _dbdata, _maxret>>
       /\ (lastCall'.op \in Submits /\ outcome'.sent) =>
              SelectSeq(ParseQsl(outcome'.body), IsSortKey) =
                  StrPairs(SelectSeq(_dbparams, IsSortKey))]_vars

C9_Witness ==
    /\ Submitted /\ outcome.sent
    /\ SelectSeq(ParseQsl(outcome.body), IsSortKey) =
           <<<<"-sortfield.2", "LAST">>, <<"-sortorder.2", "ascend">>,
             <<"-sortfield.1", "FIRST">>, <<"-sortorder.1", "descend">>>>

\* C10: set_skip_records appends one (-skip, offset) pair for a nonzero
\* offset and leaves _dbparams as it is for zero; set_group_size changes
\* only _maxret; a submit sends the limit in force when it is called.
C10_SkipAndGroupSize ==
    [][/\ (lastCall'.op = "set_skip_records" /\ lastCall'.args[1] \in {PyInt(3)}) =>
              _dbparams' = Append(_dbparams, <<"-skip", lastCall'.args[1]>>)
       /\ (lastCall'.op = "set_skip_records"
           /\ lastCall'.args[1] \in {PyInt(0), PyStr("0")}) =>
              _dbparams' = _dbparams
       /\ lastCall'.op = "set_group_size" =>
              /\ UNCHANGED <<config, _escrslt, _dbuser, _dbpasswd, _dbdata, _dbparams>>
              /\ lastCall'.args[1] = PyStr("7") => _maxret' = PyInt(7)
       /\ (lastCall'.op \in Submits /\ outcome'.sent) =>
              LET body == ParseQsl(outcome'.body)
              IN body[Len(body) - 1] = <<"-max", Str(_maxret)>>]_vars

C10_Witness ==
    /\ Submitted /\ outcome.sent
    /\ _maxret = PyInt(7)
    /\ \E i \in 1..Len(ParseQsl(outcome.body)) :
           ParseQsl(outcome.body)[i] = <<"-skip", "3">>
    /\ ParseQsl(outcome.body)[Len(ParseQsl(outcome.body)) - 1] = <<"-max", "7">>

\* the last call was a submit that returned a Query Result
ResultReturned == Submitted /\ outcome.kind = "result"

\* the FIELD and ROW elements of the response of the last submit
Fields == Resp.root.children[4].children
Rows == Resp.root.children[5].children

\* int() of the attribute key of a row element
RowId(row, key) == PyInt(IntVal(PyStr(row.attrib[key])))

\* C11: every Result Record of a returned Query Result has the entries
\* RECORDID and MODID, each holding the integer value of that attribute of
\* its row element, whatever the field metadata list declares, fields named
\* RECORDID or MODID included.
C11_RecordAndModificationId ==
    ResultReturned =>
        /\ Len(outcome.result.resultset) = Len(Rows)
        /\ \A i \in 1..Len(Rows) :
               LET record == outcome.result.resultset[i]
               IN /\ {"RECORDID", "MODID"} \subseteq DOMAIN record
                  /\ record["RECORDID"] = RowId(Rows[i], "RECORDID")
                  /\ record["MODID"] = RowId(Rows[i], "MODID")

\* the repetition count a FIELD element declares
RepetitionCount(field) == IntVal(PyStr(field.attrib["MAXREPEAT"]))

\* the columns of a row that are matched with a field
Matched(row) == 1..Min(Len(Fields), Len(row.children))

\* the number of sub-children before the first one that has no text
TextsBeforeGap(children) ==
    IF \E k \in 1..Len(children) : children[k].text = PyNone
    THEN (CHOOSE k \in 1..Len(children) :
              /\ children[k].text = PyNone
              /\ \A h \in 1..(k - 1) : children[h].text # PyNone) - 1
    ELSE Len(children)

\* C12: for a field whose repetition count is greater than 1 the decoded
\* value is the sequence of the texts of the sub-children of the field
\* element before the first sub-child without text (with output escaping
\* enabled, of their escape transforms): a gap ends the sequence, and text
\* in 2 of 3 sub-children gives a sequence of 2.
C12_RepetitionsStopAtGap ==
    ResultReturned =>
        \A i \in 1..Len(Rows) : \A j \in Matched(Rows[i]) :
            RepetitionCount(Fields[j]) > 1 =>
                LET children == Rows[i].children[j].children
                    value == outcome.result.resultset[i][Fields[j].attrib["NAME"]]
                IN /\ value.t = "list"
                   /\ Len(value.items) = TextsBeforeGap(children)
                   /\ \A k \in 1..TextsBeforeGap(children) :
                          value.items[k] = IF _escrslt
                                           THEN escape_unicode(children[k].text.s)
                                           ELSE children[k].text.s

\* text in the first two of three repetitions is decoded to ['a<', 'b'], and
\* a gap after the first one to ['a']
C12_Witness ==
    /\ ResultReturned /\ Resp = Repeating /\ ~_escrslt
    /\ outcome.result.resultset[1]["PHONE"] = PyList(<<"a<", "b">>)
    /\ outcome.result.resultset[2]["PHONE"] = PyList(<<"a">>)

\* C13: for a response of status 0 the returned resultset has one record per
\* row element, in document order, and in each record the name of the i-th
\* field maps to the value decoded from the i-th child of the row: for a
\* field of repetition count 1, the text of the child's sub-element, or None
\* when it has no text.  The fixture of one field LAST and the row
\* RECORDID=7, MODID=2, LAST=Doe gives [{RECORDID: 7, MODID: 2, LAST: 'Doe'}].
C13_OneRecordPerRow ==
    ResultReturned =>
        /\ Len(outcome.result.resultset) = Len(Rows)
        /\ \A i \in 1..Len(Rows) : \A j \in Matched(Rows[i]) :
               RepetitionCount(Fields[j]) = 1 =>
                   LET text == Rows[i].children[j].children[1].text
                       record == outcome.result.resultset[i]
                   IN /\ Fields[j].attrib["NAME"] \in DOMAIN record
                      /\ record[Fields[j].attrib["NAME"]] =
                             IF text = PyNone THEN PyNone
                             ELSE IF _escrslt THEN PyStr(escape_unicode(text.s))
                             ELSE text
        /\ Resp = Fixture =>
               outcome.result.resultset =
                   <<("RECORDID" :> PyInt(7)) @@ ("MODID" :> PyInt(2))
                     @@ ("LAST" :> PyStr("Doe"))>>

\* two rows give two records in the order of the rows, the second with None
\* for the sub-element without text
C13_Witness ==
    /\ ResultReturned /\ Resp = TwoRecords
    /\ Len(outcome.result.resultset) = 2
    /\ outcome.result.resultset[1]["LAST"] = PyStr("Doe")
    /\ outcome.result.resultset[2]["LAST"] = PyNone
    /\ outcome.result.resultset[2]["RECORDID"] = PyInt(8)

\* the escape transform as the claim states it: < and & entity-escaped, the
\* quotes escaped with the apostrophe as &#39;, a non-ASCII character as a
\* numeric character reference, every other character kept
StatedEscapeChar(c) == CASE c = "&" -> "&amp;"
                         [] c = "<" -> "&lt;"
                         [] c = "\"" -> "&quot;"
                         [] c = "'" -> "&#39;"
                         [] c \in DOMAIN CodePoint -> "&#" \o ToString(CodePoint[c]) \o ";"
                         [] OTHER -> c

RECURSIVE StatedEscape(_)
StatedEscape(s) ==
    IF s = "" THEN "" ELSE StatedEscapeChar(Head(s)) \o StatedEscape(Tail(s))

\* the value the claim gives to a text of the response
StatedValue(text) == IF _escrslt THEN StatedEscape(text) ELSE text

\* C14: with output escaping disabled every decoded field value is the text
\* of the response unmodified; with output escaping enabled every non-null
\* value of a field, whatever its declared type, is the escape transform of
\* the text and nothing else: < and & entity-escaped, quotes escaped with
\* the apostrophe as &#39;, non-ASCII characters as numeric character
\* references, all other characters kept.
C14_EscapedValues ==
    ResultReturned =>
        \A i \in 1..Len(Rows) : \A j \in Matched(Rows[i]) :
            LET children == Rows[i].children[j].children
                value == outcome.result.resultset[i][Fields[j].attrib["NAME"]]
            IN IF RepetitionCount(Fields[j]) = 1
               THEN children[1].text # PyNone =>
                        value = PyStr(StatedValue(children[1].text.s))
               ELSE \A k \in 1..Len(value.items) :
                        value.items[k] = StatedValue(children[k].text.s)

Builders == {"set_db_data", "set_db_password", "set_script", "set_record_id",
             "set_modifier_id", "set_logical_or", "set_group_size",
             "set_skip_records", "set_escape", "add_db_param", "add_db_params",
             "add_sort_param"}

\* C15: no Request Builder operation fails, whatever its arguments: each
\* completes, and an invalid argument fails at submission only.
C15_BuildersNeverFail == lastCall.op \in Builders => outcome.kind = "returned"

\* C16: a submit changes nothing in the client except Pending Parameters:
\* host, port and scheme, the Database Selection, the max-records limit, the
\* credentials and the output-escaping flag are after the submit what they
\* were before it, whether it returns a result or raises.
C16_SubmitKeepsClientState ==
    [][lastCall'.op \in Submits =>
          /\ <<_server, _port, _protocol>>' = <<_server, _port, _protocol>>
          /\ _dbdata' = _dbdata
          /\ _maxret' = _maxret
          /\ <<_dbuser, _dbpasswd>>' = <<_dbuser, _dbpasswd>>
          /\ _escrslt' = _escrslt]_vars

\* a submit that raised, with a database selected, credentials set and
\* output escaping enabled
C16_Witness ==
    /\ Submitted /\ outcome.kind = "raised"
    /\ _dbuser = "fmuser" /\ _dbpasswd = "password" /\ _escrslt
    /\ _dbdata # <<>>

\* C17: set_db_data leaves Pending Parameters unchanged: the pairs appended
\* before a database/layout reselection are still pending after it, and the
\* next submit sends them, in their order, after the pairs of the newly
\* selected database.
C17_SelectKeepsPending ==
    [][/\ lastCall'.op = "set_db_data" => _dbparams' = _dbparams
       /\ (lastCall.op = "set_db_data" /\ lastCall'.op \in Submits /\ outcome'.sent) =>
              ParseQsl(outcome'.body) =
                  StrPairs(_dbdata) \o StrPairs(_dbparams)
                  \o <<<<"-max", Str(_maxret)>>, <<ActionFlag(lastCall'.op), "">>>>]_vars

\* the database Contacts has just been selected with two pairs pending
C17_Witness ==
    /\ lastCall.op = "set_db_data"
    /\ _dbdata[1] = <<"-db", PyStr("Contacts")>>
    /\ Len(_dbparams) >= 2
====
